---- MODULE Spec2Model ----
(* The cart synchronisation core of the product-catalog front end:          *)
(* CartProvider (getCartId, cartReducer, loadCart, addToCart,               *)
(* removeFromCart, updateQuantity, clearCart and the derived views) run     *)
(* against the REST cart service.  One event loop: every action below is    *)
(* one run-to-completion step of the client (a call up to its first await,  *)
(* or the continuation of an await) or one step of the service.             *)
EXTENDS Integers, Sequences, FiniteSets, Bags, TLC

(* ------------------------------------------------------------------ *)
(* Bounds                                                               *)
(* ------------------------------------------------------------------ *)
(* the largest quantity of a cart line: every product's stock *)
MaxQty == 2

Products == {1, 2}
AddQuantities == 1..MaxQty
UpdateQuantities == 0..MaxQty

(* Calls that overlap are calls about this product (the race of the     *)
(* design notes is two calls about the same product); calls made one    *)
(* at a time are about any product.                                     *)
Raced == {1}

(* the calls the callers make after the mount, where their number is    *)
(* bounded                                                              *)
MaxCalls == 2

(* ------------------------------------------------------------------ *)
(* Values                                                               *)
(* ------------------------------------------------------------------ *)
Null == "null"

MsgLoad == "Failed to load cart"
MsgAdd == "Failed to add to cart"
MsgFetch == "Failed to fetch"
MsgJson == "Unexpected token in JSON"
MsgDetail == "Insufficient stock"

VARIABLES state, backend, ops, done, lastTerminal, adds, probe, storage, cartId,
          budget

vars == <<state, backend, ops, done, lastTerminal, adds, probe, storage, cartId,
          budget>>

(* budget: the calls the callers will still make; not bounded unless a  *)
(* specification says so                                                *)
NoBudget == [bounded |-> FALSE, left |-> 0]
Budget(n) == [bounded |-> TRUE, left |-> n]

(* probe: the last call of a pure function made from outside the        *)
(* provider, with its arguments and its result                          *)
NoProbe == [fn |-> "none"]

(* ------------------------------------------------------------------ *)
(* Sequence helpers                                                     *)
(* ------------------------------------------------------------------ *)
(* index of the first element whose index is in S, 0 when there is none *)
FirstIndex(S) == IF S = {} THEN 0 ELSE CHOOSE k \in S : \A j \in S : k <= j

RECURSIVE Without(_, _)
Without(s, id) ==
  IF s = <<>> THEN <<>>
  ELSE IF Head(s).id = id THEN Without(Tail(s), id)
  ELSE <<Head(s)>> \o Without(Tail(s), id)

(* ------------------------------------------------------------------ *)
(* SessionIdentity                                                      *)
(* ------------------------------------------------------------------ *)
(* what 'cart-' + Math.random()... + '-' + Date.now() may come to *)
Ids == {"cart-a", "cart-b"}

(* localStorage's 'cart-session-id': value is what getItem returns (Null  *)
(* when the key is not set), writes counts the setItem calls.  A storage  *)
(* that is not available throws: on every access ("blocked") or on        *)
(* setItem only ("readonly").                                             *)
Storage(mode, value) == [mode |-> mode, value |-> value, writes |-> 0]

(* !cartId *)
Falsy(value) == value \in {Null, ""}

(* cartId of a provider that is not rendered yet, and of one whose render *)
(* threw                                                                  *)
Unmounted == "unmounted"
Threw == "threw"

(* an id generated on every call *)
getCartIdAlwaysNew(store, fresh) ==
  IF store.mode = "blocked"
  THEN [threw |-> TRUE, cartId |-> Threw, storage |-> store]
  ELSE IF store.mode = "readonly"
  THEN [threw |-> TRUE, cartId |-> Threw, storage |-> store]
  ELSE [threw |-> FALSE, cartId |-> fresh,
        storage |-> [store EXCEPT !.value = fresh, !.writes = @ + 1]]

(* Generate or get cart session ID; fresh is the id it would generate *)
getCartId(store, fresh) ==
  IF store.mode = "blocked"
  THEN [threw |-> TRUE, cartId |-> Threw, storage |-> store]
  ELSE IF ~Falsy(store.value)
  THEN [threw |-> FALSE, cartId |-> store.value, storage |-> store]
  ELSE IF store.mode = "readonly"
  THEN [threw |-> TRUE, cartId |-> Threw, storage |-> store]
  ELSE [threw |-> FALSE, cartId |-> fresh,
        storage |-> [store EXCEPT !.value = fresh, !.writes = @ + 1]]

(* the provider's body runs: const cartId = getCartId() *)
Render ==
  \E fresh \in Ids :
    LET r == getCartId(storage, fresh) IN
    /\ storage' = r.storage
    /\ cartId' = r.cartId

(* ------------------------------------------------------------------ *)
(* The cart service (REST collaborator)                                 *)
(* ------------------------------------------------------------------ *)
Price(p) == 10 * p

Catalog(p) ==
  [id |-> p, name |-> p, price |-> Price(p), stock |-> MaxQty,
   available_stock |-> MaxQty]

(* the service keys a cart line by session and product; its id is not   *)
(* the product's id                                                     *)
LineId(p) == 100 + p

Row(p, q) ==
  [id |-> LineId(p), product_id |-> p, quantity |-> q, product |-> Catalog(p)]

RowOfProduct(rows, p) == FirstIndex({k \in 1..Len(rows) : rows[k].product_id = p})
RowOfLine(rows, id) == FirstIndex({k \in 1..Len(rows) : rows[k].id = id})

NoItems == <<>>

(* rows are kept in line-id order *)
RECURSIVE Insert(_, _)
Insert(rows, r) ==
  IF rows = <<>> THEN <<r>>
  ELSE IF r.id < Head(rows).id THEN <<r>> \o rows
  ELSE <<Head(rows)>> \o Insert(Tail(rows), r)

(* the service is stock-limited *)
CanCreate(rows, p, q) ==
  IF RowOfProduct(rows, p) = 0
  THEN q <= Catalog(p).stock
  ELSE rows[RowOfProduct(rows, p)].quantity + q <= Catalog(p).stock

(* POST /cart/{sessionId}/items *)
CreateLine(rows, p, q) ==
  LET k == RowOfProduct(rows, p) IN
  IF k = 0 THEN Insert(rows, Row(p, q))
  ELSE [rows EXCEPT ![k].quantity = @ + q]

(* PUT /cart/{sessionId}/items/{lineId} *)
UpdateLine(rows, id, q) == [rows EXCEPT ![RowOfLine(rows, id)].quantity = q]

(* DELETE /cart/{sessionId}/items/{lineId} *)
DeleteLine(rows, id) == Without(rows, id)

(* the carts the service can hold: a line per product, in line-id order *)
RECURSIVE CartsOf(_)
CartsOf(P) ==
  IF P = {} THEN {NoItems}
  ELSE LET p == CHOOSE x \in P : \A y \in P : x >= y
           rest == CartsOf(P \ {p})
       IN rest \cup {Append(rows, Row(p, q)) : rows \in rest, q \in 1..MaxQty}

(* ------------------------------------------------------------------ *)
(* CartStore: the reducer                                               *)
(* ------------------------------------------------------------------ *)
(* payload.given = FALSE stands for a payload whose items field is missing *)
SetCart(items) ==
  [type |-> "SET_CART", payload |-> [items |-> items, given |-> TRUE]]
SetCartNoItems ==
  [type |-> "SET_CART", payload |-> [items |-> NoItems, given |-> FALSE]]
SetLoading(b) == [type |-> "SET_LOADING", payload |-> b]
SetError(msg) == [type |-> "SET_ERROR", payload |-> msg]

(* SET_CART that keeps the old error *)
cartReducerKeepsError(st, action) ==
  CASE action.type = "SET_CART" ->
         [st EXCEPT !.items = IF action.payload.given
                              THEN action.payload.items ELSE NoItems,
                    !.loading = FALSE]
    [] action.type = "SET_LOADING" ->
         [st EXCEPT !.loading = action.payload]
    [] action.type = "SET_ERROR" ->
         [st EXCEPT !.error = action.payload, !.loading = FALSE]
    [] OTHER -> st

(* SET_CART that takes an empty list for a missing one and keeps the items *)
cartReducerKeepsOnEmpty(st, action) ==
  CASE action.type = "SET_CART" ->
         [st EXCEPT !.items = IF action.payload.given /\ action.payload.items # NoItems
                              THEN action.payload.items ELSE st.items,
                    !.loading = FALSE,
                    !.error = Null]
    [] action.type = "SET_LOADING" ->
         [st EXCEPT !.loading = action.payload]
    [] action.type = "SET_ERROR" ->
         [st EXCEPT !.error = action.payload, !.loading = FALSE]
    [] OTHER -> st

(* SET_LOADING that clears the error *)
cartReducerLoadingClearsError(st, action) ==
  CASE action.type = "SET_CART" ->
         [st EXCEPT !.items = IF action.payload.given
                              THEN action.payload.items ELSE NoItems,
                    !.loading = FALSE,
                    !.error = Null]
    [] action.type = "SET_LOADING" ->
         [st EXCEPT !.loading = action.payload, !.error = Null]
    [] action.type = "SET_ERROR" ->
         [st EXCEPT !.error = action.payload, !.loading = FALSE]
    [] OTHER -> st

(* SET_ERROR that leaves loading as it is *)
cartReducerErrorKeepsLoading(st, action) ==
  CASE action.type = "SET_CART" ->
         [st EXCEPT !.items = IF action.payload.given
                              THEN action.payload.items ELSE NoItems,
                    !.loading = FALSE,
                    !.error = Null]
    [] action.type = "SET_LOADING" ->
         [st EXCEPT !.loading = action.payload]
    [] action.type = "SET_ERROR" ->
         [st EXCEPT !.error = action.payload]
    [] OTHER -> st

(* an unknown action that resets the state *)
cartReducerDefaultResets(st, action) ==
  CASE action.type = "SET_CART" ->
         [st EXCEPT !.items = IF action.payload.given
                              THEN action.payload.items ELSE NoItems,
                    !.loading = FALSE,
                    !.error = Null]
    [] action.type = "SET_LOADING" ->
         [st EXCEPT !.loading = action.payload]
    [] action.type = "SET_ERROR" ->
         [st EXCEPT !.error = action.payload, !.loading = FALSE]
    [] OTHER -> [items |-> NoItems, loading |-> FALSE, error |-> Null]

(* SET_CART that leaves loading as it is *)
cartReducerKeepsLoading(st, action) ==
  CASE action.type = "SET_CART" ->
         [st EXCEPT !.items = IF action.payload.given
                              THEN action.payload.items ELSE NoItems,
                    !.error = Null]
    [] action.type = "SET_LOADING" ->
         [st EXCEPT !.loading = action.payload]
    [] action.type = "SET_ERROR" ->
         [st EXCEPT !.error = action.payload, !.loading = FALSE]
    [] OTHER -> st

(* SET_ERROR that drops the items *)
cartReducerErrorClears(st, action) ==
  CASE action.type = "SET_CART" ->
         [st EXCEPT !.items = IF action.payload.given
                              THEN action.payload.items ELSE NoItems,
                    !.loading = FALSE,
                    !.error = Null]
    [] action.type = "SET_LOADING" ->
         [st EXCEPT !.loading = action.payload]
    [] action.type = "SET_ERROR" ->
         [st EXCEPT !.items = NoItems, !.error = action.payload, !.loading = FALSE]
    [] OTHER -> st

cartReducer(st, action) ==
  CASE action.type = "SET_CART" ->
         [st EXCEPT !.items = IF action.payload.given
                              THEN action.payload.items ELSE NoItems,
                    !.loading = FALSE,
                    !.error = Null]
    [] action.type = "SET_LOADING" ->
         [st EXCEPT !.loading = action.payload]
    [] action.type = "SET_ERROR" ->
         [st EXCEPT !.error = action.payload, !.loading = FALSE]
    [] OTHER -> st

InitialState == [items |-> NoItems, loading |-> FALSE, error |-> Null]

(* ------------------------------------------------------------------ *)
(* Requests, responses and the effect of one client step                *)
(* ------------------------------------------------------------------ *)
NoReq == [quantity |-> 0, method |-> "none", target |-> "none", lineId |-> 0, productId |-> 0]
GetCart == [NoReq EXCEPT !.method = "GET", !.target = "cart"]
PostItem(p, q) ==
  [NoReq EXCEPT !.method = "POST", !.target = "items", !.productId = p, !.quantity = q]
PutItem(id, p, q) ==
  [NoReq EXCEPT !.method = "PUT", !.target = "item", !.lineId = id,
                !.productId = p, !.quantity = q]
DeleteItem(id) == [NoReq EXCEPT !.method = "DELETE", !.target = "item", !.lineId = id]
DeleteCart == [NoReq EXCEPT !.method = "DELETE", !.target = "cart"]

NoResp == [items |-> NoItems, status |-> "none", body |-> "none"]
OkResp(items) == [items |-> items, status |-> "ok", body |-> "json"]
HttpError(body) == [items |-> NoItems, status |-> "http", body |-> body]
NetworkError == [items |-> NoItems, status |-> "network", body |-> "none"]

(* What one synchronous stretch of a function does: the state it leaves,  *)
(* the request it awaits next (pc "request": its own mutating request,    *)
(* pc "load": the GET of loadCart, pc "done": it returned), the terminal  *)
(* dispatch it made, and whether it called alert().                       *)
Effect(st, pc, run, req, terminal, alerted, failed, noop, setLoading) ==
  [state |-> st, pc |-> pc, run |-> run, req |-> req, terminal |-> terminal,
   alerted |-> alerted, failed |-> failed, noop |-> noop, setLoading |-> setLoading]

(* ------------------------------------------------------------------ *)
(* SyncEngine: each function up to its first await (...Call) and the    *)
(* continuation of its await (...Resume)                                *)
(* ------------------------------------------------------------------ *)
(* state.items.find(item => item.productId === productId) *)
ItemOfProduct(items, p) == FirstIndex({k \in 1..Len(items) : items[k].productId = p})

(* the line's id taken from the product instead of the cart row *)
MapItemProductId(item) ==
  [id |-> item.product.id,
   quantity |-> item.quantity,
   productId |-> item.product_id,
   productDetails |-> [id |-> item.product.id,
                       name |-> item.product.name,
                       price |-> item.product.price,
                       stock |-> item.product.stock,
                       available_stock |-> item.product.available_stock]]

(* Convert backend format to frontend format *)
MapItem(item) ==
  [id |-> item.id,
   quantity |-> item.quantity,
   productId |-> item.product_id,
   productDetails |-> [id |-> item.product.id,
                       name |-> item.product.name,
                       price |-> item.product.price,
                       stock |-> item.product.stock,
                       available_stock |-> item.product.available_stock]]

MapItems(rows) == [k \in 1..Len(rows) |-> MapItem(rows[k])]

LoadCartCall(st, run) ==
  Effect(cartReducer(st, SetLoading(TRUE)), "load", run, GetCart,
         "none", FALSE, FALSE, FALSE, TRUE)

(* a catch block that only logs *)
LoadCartResumeSilent(st, resp) ==
  IF resp.status = "ok"
  THEN Effect(cartReducer(st, SetCart(MapItems(resp.items))), "done", "loadCart",
              NoReq, "SET_CART", FALSE, FALSE, FALSE, FALSE)
  ELSE Effect(st, "done", "loadCart", NoReq, "none", FALSE, TRUE, FALSE, FALSE)

(* a failed GET tried once more *)
LoadCartResumeRetry(st, resp) ==
  IF resp.status = "ok"
  THEN Effect(cartReducer(st, SetCart(MapItems(resp.items))), "done", "loadCart",
              NoReq, "SET_CART", FALSE, FALSE, FALSE, FALSE)
  ELSE IF st.loading
  THEN Effect(cartReducer(st, SetLoading(FALSE)), "load", "loadCart", GetCart,
              "none", FALSE, FALSE, FALSE, FALSE)
  ELSE Effect(cartReducer(st, SetError(IF resp.status = "http" THEN MsgLoad ELSE MsgFetch)),
              "done", "loadCart", NoReq, "SET_ERROR", FALSE, TRUE, FALSE, FALSE)

(* a reload patched into the items: lines the response does not name stay *)
LoadCartResumeMerge(st, resp) ==
  IF resp.status = "ok"
  THEN LET kept == SelectSeq(st.items,
                             LAMBDA item : RowOfProduct(resp.items, item.productId) = 0)
       IN Effect(cartReducer(st, SetCart(MapItems(resp.items) \o kept)),
                 "done", "loadCart", NoReq, "SET_CART", FALSE, FALSE, FALSE, FALSE)
  ELSE Effect(cartReducer(st, SetError(IF resp.status = "http" THEN MsgLoad ELSE MsgFetch)),
              "done", "loadCart", NoReq, "SET_ERROR", FALSE, TRUE, FALSE, FALSE)

(* a reload that gives way to the snapshot of a call that completed first *)
LoadCartResumeFirstWins(st, resp) ==
  IF resp.status = "ok"
  THEN Effect(IF st.loading THEN cartReducer(st, SetCart(MapItems(resp.items)))
                            ELSE cartReducer(st, SetLoading(FALSE)),
              "done", "loadCart", NoReq, "SET_CART", FALSE, FALSE, FALSE, FALSE)
  ELSE Effect(cartReducer(st, SetError(IF resp.status = "http" THEN MsgLoad ELSE MsgFetch)),
              "done", "loadCart", NoReq, "SET_ERROR", FALSE, TRUE, FALSE, FALSE)

LoadCartResume(st, resp) ==
  IF resp.status = "ok"
  THEN Effect(cartReducer(st, SetCart(MapItems(resp.items))), "done", "loadCart",
              NoReq, "SET_CART", FALSE, FALSE, FALSE, FALSE)
  ELSE Effect(cartReducer(st, SetError(IF resp.status = "http" THEN MsgLoad ELSE MsgFetch)),
              "done", "loadCart", NoReq, "SET_ERROR", FALSE, TRUE, FALSE, FALSE)

AddToCartCall(st, p, q) ==
  Effect(cartReducer(st, SetLoading(TRUE)), "request", "addToCart", PostItem(p, q),
         "none", FALSE, FALSE, FALSE, TRUE)

(* error.message of what addToCart's try block throws on a failed POST:   *)
(* fetch rejected, response.json() rejected, or errorData.detail || ...   *)
AddErrorMessage(resp) ==
  IF resp.status = "network" THEN MsgFetch
  ELSE IF resp.body = "badbody" THEN MsgJson
  ELSE IF resp.body = "detail" THEN MsgDetail
  ELSE MsgAdd

(* a catch block that only alerts *)
AddToCartResumeSilent(st, resp) ==
  IF resp.status = "ok"
  THEN LoadCartCall(st, "addToCart")
  ELSE Effect(st, "done", "addToCart", NoReq, "none", TRUE, TRUE, FALSE, FALSE)

AddToCartResume(st, resp) ==
  IF resp.status = "ok"
  THEN LoadCartCall(st, "addToCart")
  ELSE Effect(cartReducer(st, SetError(AddErrorMessage(resp))), "done", "addToCart",
              NoReq, "SET_ERROR", TRUE, TRUE, FALSE, FALSE)

(* without the early return: DELETE of an undefined line *)
RemoveFromCartCallNoGuard(st, productId) ==
  LET k == ItemOfProduct(st.items, productId) IN
  Effect(st, "request", "removeFromCart",
         DeleteItem(IF k = 0 THEN 0 ELSE st.items[k].id),
         "none", FALSE, FALSE, FALSE, FALSE)

RemoveFromCartCall(st, productId) ==
  LET k == ItemOfProduct(st.items, productId) IN
  IF k = 0
  THEN Effect(st, "done", "removeFromCart", NoReq, "none", FALSE, FALSE, TRUE, FALSE)
  ELSE Effect(st, "request", "removeFromCart", DeleteItem(st.items[k].id),
              "none", FALSE, FALSE, FALSE, FALSE)

RemoveFromCartResume(st, resp) ==
  IF resp.status = "ok"
  THEN LoadCartCall(st, "removeFromCart")
  ELSE Effect(st, "done", "removeFromCart", NoReq, "none", TRUE, TRUE, FALSE, FALSE)

(* without the delegation: a PUT of the quantity, whatever it is *)
UpdateQuantityCallNoDelegate(st, productId, quantity) ==
  LET k == ItemOfProduct(st.items, productId) IN
  IF k = 0
  THEN Effect(st, "done", "updateQuantity", NoReq, "none", FALSE, FALSE, TRUE, FALSE)
  ELSE Effect(st, "request", "updateQuantity",
              PutItem(st.items[k].id, productId, quantity),
              "none", FALSE, FALSE, FALSE, FALSE)

UpdateQuantityCall(st, productId, quantity) ==
  LET k == ItemOfProduct(st.items, productId) IN
  IF k = 0
  THEN Effect(st, "done", "updateQuantity", NoReq, "none", FALSE, FALSE, TRUE, FALSE)
  ELSE IF quantity <= 0
  THEN RemoveFromCartCall(st, productId)
  ELSE Effect(st, "request", "updateQuantity",
              PutItem(st.items[k].id, productId, quantity),
              "none", FALSE, FALSE, FALSE, FALSE)

UpdateQuantityResume(st, resp) ==
  IF resp.status = "ok"
  THEN LoadCartCall(st, "updateQuantity")
  ELSE Effect(st, "done", "updateQuantity", NoReq, "none", TRUE, TRUE, FALSE, FALSE)

ClearCartCall(st) ==
  Effect(st, "request", "clearCart", DeleteCart, "none", FALSE, FALSE, FALSE, FALSE)

(* reconciling by reload, as the other mutations do *)
ClearCartResumeReload(st, resp) ==
  IF resp.status = "ok"
  THEN LoadCartCall(st, "clearCart")
  ELSE Effect(st, "done", "clearCart", NoReq, "none", TRUE, TRUE, FALSE, FALSE)

ClearCartResume(st, resp) ==
  IF resp.status = "ok"
  THEN Effect(cartReducer(st, SetCart(NoItems)), "done", "clearCart",
              NoReq, "SET_CART", FALSE, FALSE, FALSE, FALSE)
  ELSE Effect(st, "done", "clearCart", NoReq, "none", TRUE, TRUE, FALSE, FALSE)

(* The continuation that runs when the awaited response arrives *)
Resume(st, o) ==
  CASE o.pc = "load" -> LoadCartResume(st, o.resp)
    [] o.pc = "request" /\ o.run = "addToCart" -> AddToCartResume(st, o.resp)
    [] o.pc = "request" /\ o.run = "removeFromCart" -> RemoveFromCartResume(st, o.resp)
    [] o.pc = "request" /\ o.run = "updateQuantity" -> UpdateQuantityResume(st, o.resp)
    [] o.pc = "request" /\ o.run = "clearCart" -> ClearCartResume(st, o.resp)

(* ------------------------------------------------------------------ *)
(* DerivedView: read-only projections of the state                      *)
(* ------------------------------------------------------------------ *)
(* items.reduce((total, item) => total + item.quantity, total) *)
RECURSIVE ReduceQuantity(_, _)
ReduceQuantity(items, total) ==
  IF items = <<>> THEN total
  ELSE ReduceQuantity(Tail(items), total + Head(items).quantity)

getCartItemCount(st) == ReduceQuantity(st.items, 0)

(* items.reduce((total, item) => total + price * quantity, total) *)
RECURSIVE ReducePrice(_, _)
ReducePrice(items, total) ==
  IF items = <<>> THEN total
  ELSE ReducePrice(Tail(items),
                   total + Head(items).productDetails.price * Head(items).quantity)

(* the prices added up, whatever the quantities *)
getCartTotalUnitPrices(st) ==
  ReducePrice([k \in 1..Len(st.items) |-> [st.items[k] EXCEPT !.quantity = 1]], 0)

getCartTotal(st) == ReducePrice(st.items, 0)

getProductQuantityInCart(st, productId) ==
  LET k == ItemOfProduct(st.items, productId) IN
  IF k = 0 THEN 0 ELSE st.items[k].quantity

(* What a caller may pass for a stock or a quantity: a number, null or   *)
(* undefined (a missing field or argument reads as undefined)           *)
Num(n) == [value |-> n, kind |-> "number"]
JsNull == [value |-> 0, kind |-> "null"]
JsUndefined == [value |-> 0, kind |-> "undefined"]

(* a >= b: null converts to 0, undefined to NaN, and NaN compares false *)
GreaterOrEqual(a, b) ==
  /\ a.kind # "undefined" /\ b.kind # "undefined"
  /\ a.value >= b.value

(* available_stock || stock *)
getAvailableStockIfTruthy(product) ==
  IF product.available_stock.kind = "number" /\ product.available_stock.value # 0
  THEN product.available_stock ELSE product.stock

(* Use backend's available_stock if available, otherwise fallback to stock *)
getAvailableStock(product) ==
  IF product.available_stock # JsUndefined THEN product.available_stock ELSE product.stock

(* quantity = 1 when the argument is missing *)
canAddToCart(product, quantity) ==
  LET availableStock == getAvailableStock(product) IN
  GreaterOrEqual(availableStock, IF quantity = JsUndefined THEN Num(1) ELSE quantity)

(* ------------------------------------------------------------------ *)
(* Operations in flight                                                 *)
(* ------------------------------------------------------------------ *)
(* One record per call that is suspended at an await.  op is the         *)
(* function the caller invoked, run the function whose request is        *)
(* awaited, pc "request" its own request and pc "load" the GET of the    *)
(* loadCart it called, cartId the session id its requests are addressed  *)
(* to.  sent, setLoading, first, alone and afterClear are                *)
(* history: the requests the call has issued so far,                     *)
(* whether the call dispatched SET_LOADING(true) before its own *)
(* request, whether no other call was suspended when it was made,        *)
(* whether no other call was suspended during it, and whether it is a    *)
(* loadCart called right after a successful clearCart with no change of  *)
(* the cart since.                                                       *)
NoSent == [mutating |-> 0, gets |-> 0]

Sent(sent, req) ==
  CASE req.method = "none" -> sent
    [] req.method = "GET" -> [sent EXCEPT !.gets = @ + 1]
    [] OTHER -> [sent EXCEPT !.mutating = @ + 1]

Op(op, productId, quantity, eff, alone, tag) ==
  [cartId |-> cartId,
   quantity |-> quantity,
   productId |-> productId,
   pc |-> eff.pc,
   run |-> eff.run,
   req |-> eff.req,
   setLoading |-> eff.setLoading,
   op |-> op,
   resp |-> NoResp,
   sent |-> Sent(NoSent, eff.req),
   first |-> alone,
   alone |-> alone,
   afterClear |-> tag]

(* done describes the call that returned in the last step (op "none"     *)
(* when the last step was not the return of a call)                      *)
(* pc and status: where the call returned and the response it returned   *)
(* on; terminal: the SET_CART or SET_ERROR it dispatched last            *)
Done(op, pc, status, eff, sent, first, alone, tag) ==
  [status |-> status,
   pc |-> pc,
   terminal |-> eff.terminal,
   alerted |-> eff.alerted,
   failed |-> eff.failed,
   noop |-> eff.noop,
   op |-> op,
   sent |-> sent,
   first |-> first,
   alone |-> alone,
   afterClear |-> tag]

NoneDone ==
  [status |-> "none",
   pc |-> "none",
   terminal |-> "none",
   alerted |-> FALSE,
   failed |-> FALSE,
   noop |-> FALSE,
   op |-> "none",
   sent |-> NoSent,
   first |-> FALSE,
   alone |-> FALSE,
   afterClear |-> FALSE]

Outstanding == BagToSet(ops)
One(o) == SetToBag({o})

Overlapped(o) == [o EXCEPT !.alone = FALSE]
Untagged(o) == [o EXCEPT !.afterClear = FALSE]

(* adds is history: the addToCart calls made so far, for as long as the    *)
(* run has been nothing but successful addToCart calls, one at a time,    *)
(* each for a product not added before, on a cart that was empty.         *)
NoAdds == [pure |-> TRUE, calls |-> <<>>]
Spoiled == [pure |-> FALSE, calls |-> <<>>]

Added == {adds.calls[k].productId : k \in 1..Len(adds.calls)}

AddsAfterCall(op, productId, quantity) ==
  IF /\ adds.pure /\ op = "addToCart" /\ Outstanding = {}
     /\ productId \notin Added
  THEN [adds EXCEPT !.calls = Append(@, [price |-> Catalog(productId).price,
                                         quantity |-> quantity,
                                         productId |-> productId])]
  ELSE Spoiled

(* no queuing or mutual exclusion: a call may start while another is      *)
(* suspended; at most two calls are suspended at a time                   *)
MayStart == BagCardinality(ops) <= 1

(* A call of op(productId, quantity) from an event handler, up to its     *)
(* first await; eff is what the function did in that stretch.             *)
Begin(op, productId, quantity, eff, tag) ==
  /\ cartId \in Ids
  /\ MayStart
  /\ budget.bounded => budget.left > 0
  /\ budget' = IF budget.bounded THEN Budget(budget.left - 1) ELSE budget
  /\ state' = eff.state
  /\ IF eff.pc = "done"
     THEN /\ ops' = ops
          /\ done' = Done(op, "call", "none", eff, Sent(NoSent, eff.req),
                            Outstanding = {}, Outstanding = {}, FALSE)
     ELSE /\ ops' = BagOfAll(Overlapped, ops)
                      (+) One(Op(op, productId, quantity, eff, Outstanding = {}, tag))
          /\ done' = NoneDone
  /\ adds' = AddsAfterCall(op, productId, quantity)
  /\ Render
  /\ UNCHANGED <<backend, lastTerminal, probe>>

StartLoadCart ==
  Begin("loadCart", 0, 0, LoadCartCall(state, "loadCart"),
        done.op = "clearCart" /\ done.terminal = "SET_CART" /\ backend = NoItems)

StartAddToCart(p, q) ==
  Begin("addToCart", p, q, AddToCartCall(state, p, q), FALSE)

StartRemoveFromCart(p) ==
  Begin("removeFromCart", p, 0, RemoveFromCartCall(state, p), FALSE)

StartUpdateQuantity(p, q) ==
  Begin("updateQuantity", p, q, UpdateQuantityCall(state, p, q), FALSE)

StartClearCart ==
  Begin("clearCart", 0, 0, ClearCartCall(state), FALSE)

(* ------------------------------------------------------------------ *)
(* The service answers a request                                        *)
(* ------------------------------------------------------------------ *)
Pending(o) == o \in Outstanding /\ o.resp.status = "none"

Mutating(req) == req.method # "GET"

CanApply(req) ==
  CASE req.method = "GET" -> TRUE
    [] req.method = "POST" -> CanCreate(backend, req.productId, req.quantity)
    [] req.method = "PUT" ->
         /\ RowOfLine(backend, req.lineId) # 0
         /\ req.quantity <= Catalog(req.productId).stock
    [] req.method = "DELETE" /\ req.target = "item" -> RowOfLine(backend, req.lineId) # 0
    [] req.method = "DELETE" /\ req.target = "cart" -> TRUE

Applied(req) ==
  CASE req.method = "GET" -> backend
    [] req.method = "POST" -> CreateLine(backend, req.productId, req.quantity)
    [] req.method = "PUT" -> UpdateLine(backend, req.lineId, req.quantity)
    [] req.method = "DELETE" /\ req.target = "item" -> DeleteLine(backend, req.lineId)
    [] req.method = "DELETE" /\ req.target = "cart" -> NoItems

ErrorBodies(req) ==
  IF req.method \in {"POST", "PUT"} THEN {"detail", "nodetail", "badbody"}
  ELSE {"nodetail"}

(* the service carries the request out; resp is on its way to the client *)
Handle(o, resp) ==
  /\ Pending(o)
  /\ CanApply(o.req)
  /\ backend' = Applied(o.req)
  /\ ops' = (IF Mutating(o.req) THEN BagOfAll(Untagged, ops (-) One(o))
                                ELSE ops (-) One(o))
              (+) One([o EXCEPT !.resp = resp])
  /\ done' = NoneDone
  /\ UNCHANGED <<state, lastTerminal, adds, probe, storage, cartId, budget>>

ServeOk(o) ==
  Handle(o, OkResp(IF o.req.method = "GET" THEN backend ELSE NoItems))

(* the request was carried out but its response never reached the client *)
ServeLost(o) ==
  /\ Mutating(o.req)
  /\ Handle(o, NetworkError)

(* ------------------------------------------------------------------ *)
(* The awaited response arrives and the continuation runs               *)
(* ------------------------------------------------------------------ *)
(* the call went on to loadCart(): nothing reads its arguments any more *)
Reloading(o, eff) ==
  [o EXCEPT !.pc = eff.pc, !.run = "loadCart", !.req = eff.req, !.resp = NoResp,
            !.productId = 0, !.quantity = 0, !.sent = Sent(@, eff.req)]

Settle(o, resp) ==
  LET eff == Resume(state, [o EXCEPT !.resp = resp]) IN
  /\ state' = eff.state
  /\ IF eff.pc = "done"
     THEN /\ ops' = ops (-) One(o)
          /\ done' = Done(o.op, o.pc, resp.status, eff, o.sent, o.first, o.alone,
                            o.afterClear)
     ELSE /\ ops' = (ops (-) One(o)) (+) One(Reloading(o, eff))
          /\ done' = NoneDone
  /\ lastTerminal' = IF eff.terminal = "none" THEN lastTerminal ELSE eff.terminal
  /\ adds' = IF eff.failed THEN Spoiled ELSE adds
  /\ Render
  /\ UNCHANGED <<backend, probe, budget>>

(* the response of a request the service carried out arrives *)
Deliver(o) ==
  /\ o \in Outstanding
  /\ o.resp.status # "none"
  /\ Settle(o, o.resp)

(* The service refuses the request (a non-success response with body b),  *)
(* or the request never reaches it (fetch rejects): the cart is not       *)
(* touched, so the refusal and its arrival are one step.                  *)
DeliverFailure(o, resp) ==
  /\ Pending(o)
  /\ resp \in {HttpError(b) : b \in ErrorBodies(o.req)} \cup {NetworkError}
  /\ Settle(o, resp)

(* ------------------------------------------------------------------ *)
(* The system                                                           *)
(* ------------------------------------------------------------------ *)
(* The session may already hold a cart from an earlier page load *)
InitBackends == {NoItems, <<Row(1, 1)>>}

(* After CartProvider mounted: useReducer's initial state, the session    *)
(* id generated and stored, then the mount effect has called loadCart.    *)
Init ==
  LET eff == LoadCartCall(InitialState, "loadCart") IN
  /\ storage = [Storage("ok", "cart-a") EXCEPT !.writes = 1]
  /\ cartId = "cart-a"
  /\ state = eff.state
  /\ backend \in InitBackends
  /\ ops = One(Op("loadCart", 0, 0, eff, TRUE, FALSE))
  /\ done = NoneDone
  /\ lastTerminal = "none"
  /\ adds = IF backend = NoItems THEN NoAdds ELSE Spoiled
  /\ probe = NoProbe
  /\ budget = NoBudget

Service ==
  \/ \E o \in Outstanding : ServeOk(o)
  \/ \E o \in Outstanding : ServeLost(o)
  \/ \E o \in Outstanding : Deliver(o)
  \/ \E o \in Outstanding, b \in {"detail", "nodetail", "badbody", "network"} :
       DeliverFailure(o, IF b = "network" THEN NetworkError ELSE HttpError(b))

Call(P) ==
  \/ StartLoadCart
  \/ \E p \in P, q \in AddQuantities : StartAddToCart(p, q)
  \/ \E p \in P : StartRemoveFromCart(p)
  \/ \E p \in P, q \in UpdateQuantities : StartUpdateQuantity(p, q)
  \/ StartClearCart

(* calls overlap freely *)
Next == Call(Raced) \/ Service

Spec == Init /\ [][Next]_vars

(* The callers make MaxCalls calls after the mount, overlapping freely.   *)
(* Every request is answered and every answer arrives: the service steps  *)
(* are weakly fair.                                                       *)
LiveInit ==
  LET eff == LoadCartCall(InitialState, "loadCart") IN
  /\ storage = [Storage("ok", "cart-a") EXCEPT !.writes = 1]
  /\ cartId = "cart-a"
  /\ state = eff.state
  /\ backend \in InitBackends
  /\ ops = One(Op("loadCart", 0, 0, eff, TRUE, FALSE))
  /\ done = NoneDone
  /\ lastTerminal = "none"
  /\ adds = Spoiled
  /\ probe = NoProbe
  /\ budget = Budget(MaxCalls)

LiveSpec == LiveInit /\ [][Next]_vars /\ WF_vars(Service)

(* every call is made when no other call is suspended *)
NextSeq == (Outstanding = {} /\ Call(Products)) \/ Service

SeqSpec == Init /\ [][NextSeq]_vars

(* ------------------------------------------------------------------ *)
(* The reducer alone: any action dispatched on any state                *)
(* ------------------------------------------------------------------ *)
CartStates ==
  [items : {MapItems(rows) : rows \in CartsOf(Products)},
   loading : BOOLEAN,
   error : {Null, MsgLoad, MsgDetail}]

(* action types the switch has no case for *)
UnknownTypes == {"RESET", "ADD_ITEM", "set_cart", ""}

Dispatch(action) ==
  /\ state' = cartReducer(state, action)
  /\ probe' = [fn |-> "dispatch", action |-> action, prior |-> state]
  /\ UNCHANGED <<backend, ops, done, lastTerminal, adds, storage, cartId, budget>>

ReducerInit ==
  /\ storage = [Storage("ok", "cart-a") EXCEPT !.writes = 1]
  /\ cartId = "cart-a"
  /\ state \in CartStates
  /\ backend = NoItems
  /\ ops = EmptyBag
  /\ done = NoneDone
  /\ lastTerminal = "none"
  /\ adds = Spoiled
  /\ probe = NoProbe
  /\ budget = NoBudget

ReducerNext ==
  \/ \E rows \in CartsOf(Products) : Dispatch(SetCart(MapItems(rows)))
  \/ Dispatch(SetCartNoItems)
  \/ \E b \in BOOLEAN : Dispatch(SetLoading(b))
  \/ \E msg \in {MsgLoad, MsgDetail} : Dispatch(SetError(msg))
  \/ \E type \in UnknownTypes : Dispatch([type |-> type, payload |-> Null])

ReducerSpec == ReducerInit /\ [][ReducerNext]_vars

(* ------------------------------------------------------------------ *)
(* Callers that pass any integer for a quantity                         *)
(* ------------------------------------------------------------------ *)
(* 0 stands for the quantities below 1: it leaves a line's quantity as it *)
(* is, so the quantities of the lines stay bounded                        *)
AnyQuantities == 0..MaxQty

CallAny(P) ==
  \/ \E p \in P, q \in AnyQuantities : StartAddToCart(p, q)
  \/ \E p \in P, q \in AnyQuantities : StartUpdateQuantity(p, q)

NextAny == (Outstanding = {} /\ CallAny(Products)) \/ Service

AnySpec == Init /\ [][NextAny]_vars

(* ------------------------------------------------------------------ *)
(* From the first render, on any storage                                *)
(* ------------------------------------------------------------------ *)
Storages ==
  {Storage(mode, value) : mode \in {"ok", "readonly", "blocked"},
                          value \in {Null, ""} \cup Ids}

IdInit ==
  /\ storage \in Storages
  /\ cartId = Unmounted
  /\ state = InitialState
  /\ backend \in InitBackends
  /\ ops = EmptyBag
  /\ done = NoneDone
  /\ lastTerminal = "none"
  /\ adds = Spoiled
  /\ probe = NoProbe
  /\ budget = NoBudget

(* The first render and its effect: getCartId(), useReducer, loadCart().   *)
(* A render that throws leaves no provider.                                *)
Mount ==
  /\ cartId = Unmounted
  /\ Render
  /\ IF cartId' = Threw
     THEN UNCHANGED <<state, ops>>
     ELSE LET eff == LoadCartCall(InitialState, "loadCart") IN
          /\ state' = eff.state
          /\ ops' = One([Op("loadCart", 0, 0, eff, TRUE, FALSE) EXCEPT !.cartId = cartId'])
  /\ UNCHANGED <<backend, done, lastTerminal, adds, probe, budget>>

IdNext == Mount \/ (Outstanding = {} /\ Call(Raced)) \/ Service

IdSpec == IdInit /\ [][IdNext]_vars

(* ------------------------------------------------------------------ *)
(* The admission check, asked for any product and quantity              *)
(* ------------------------------------------------------------------ *)
StockLevels == 0..(MaxQty + 1)
JsProducts ==
  [id : {1}, stock : {Num(n) : n \in StockLevels},
   available_stock : {Num(n) : n \in StockLevels} \cup {JsNull, JsUndefined}]
JsQuantities == {Num(k) : k \in -1..(MaxQty + 2)} \cup {JsUndefined}

AskCanAddToCart(product, quantity) ==
  /\ probe' = [quantity |-> quantity,
               product |-> product,
               fn |-> "canAddToCart",
               result |-> canAddToCart(product, quantity)]
  /\ UNCHANGED <<state, backend, ops, done, lastTerminal, adds, storage, cartId,
                 budget>>

ViewInit ==
  /\ storage = [Storage("ok", "cart-a") EXCEPT !.writes = 1]
  /\ cartId = "cart-a"
  /\ state = InitialState
  /\ backend = NoItems
  /\ ops = EmptyBag
  /\ done = NoneDone
  /\ lastTerminal = "none"
  /\ adds = NoAdds
  /\ probe = NoProbe
  /\ budget = NoBudget

ViewNext == \E product \in JsProducts, quantity \in JsQuantities :
              AskCanAddToCart(product, quantity)

ViewSpec == ViewInit /\ [][ViewNext]_vars

(* ------------------------------------------------------------------ *)
(* Calls made from the page: the product cards and the cart widget      *)
(* ------------------------------------------------------------------ *)
(* the product a card was rendered with, whatever available_stock the   *)
(* product list reported for it                                         *)
CardProducts ==
  {[id |-> p, stock |-> Num(Catalog(p).stock), available_stock |-> a] :
     p \in Raced, a \in {Num(n) : n \in 0..MaxQty} \cup {JsUndefined}}

(* const canAdd = canAddToCart(product) && !loading *)
canAdd(product) == canAddToCart(product, JsUndefined) /\ ~state.loading

(* the card's add button: disabled={!canAdd}, onClick={handleAddToCart} *)
ClickAdd(product) ==
  /\ canAdd(product)
  /\ canAddToCart(product, JsUndefined)
  /\ StartAddToCart(product.id, 1)

(* the widget's minus and plus buttons on the k-th item *)
handleUpdateQuantity(productId, newQuantity) ==
  IF newQuantity <= 0
  THEN StartRemoveFromCart(productId)
  ELSE StartUpdateQuantity(productId, newQuantity)

ClickMinus(k) ==
  handleUpdateQuantity(state.items[k].productId, state.items[k].quantity - 1)

ClickPlus(k) ==
  /\ ~(state.items[k].quantity >= state.items[k].productDetails.stock)
  /\ handleUpdateQuantity(state.items[k].productId, state.items[k].quantity + 1)

(* the widget's remove button on the k-th item *)
ClickRemove(k) == StartRemoveFromCart(state.items[k].productId)

(* the widget's Clear Cart button, rendered when the cart has items *)
ClickClear ==
  /\ Len(state.items) # 0
  /\ StartClearCart

UiNext ==
  \/ \E product \in CardProducts : ClickAdd(product)
  \/ \E k \in 1..Len(state.items) : ClickMinus(k)
  \/ \E k \in 1..Len(state.items) : ClickPlus(k)
  \/ \E k \in 1..Len(state.items) : ClickRemove(k)
  \/ ClickClear
  \/ Service

UiSpec == Init /\ [][UiNext]_vars

(* ------------------------------------------------------------------ *)
(* Properties                                                           *)
(* ------------------------------------------------------------------ *)
Quiet == Outstanding = {}

ClientLines == {<<state.items[k].id, state.items[k].productId, state.items[k].quantity>> :
                  k \in 1..Len(state.items)}
ServiceLines == {<<backend[k].id, backend[k].product_id, backend[k].quantity>> :
                   k \in 1..Len(backend)}
InSync == Len(state.items) = Len(backend) /\ ClientLines = ServiceLines

(* C1, as claimed: whenever no call is suspended and the last call to     *)
(* return ended in its SET_CART, the items are the service's cart lines,  *)
(* however the calls overlapped.                                          *)
C1_NeverDrifts == (Quiet /\ done.terminal = "SET_CART") => InSync

(* C1, amended: whenever no call is suspended and the last call to return *)
(* ended in its SET_CART and overlapped no other call, the items are the  *)
(* service's cart lines (same line ids, product ids and quantities).      *)
C1_InSyncAfterLoneSuccess ==
  (Quiet /\ done.terminal = "SET_CART" /\ done.alone) => InSync

C1_Witness ==
  /\ Quiet
  /\ done.op = "addToCart" /\ done.terminal = "SET_CART" /\ done.alone
  /\ state.items # NoItems

(* C2: every suspended call dispatched SET_LOADING(true) before it issued *)
(* its own request, and every call that issued a request returns on a     *)
(* terminal SET_CART or SET_ERROR.                                        *)
C2_LoadingThenTerminal ==
  /\ \A o \in Outstanding : o.setLoading
  /\ (done.op # "none" /\ ~done.noop) => done.terminal \in {"SET_CART", "SET_ERROR"}

(* C3: a call whose request failed (a non-success response or a network   *)
(* failure) returns with SET_ERROR dispatched, error set to the failure    *)
(* message, and the user notified.                                         *)
C3_FailureSurfaced ==
  done.failed => /\ done.terminal = "SET_ERROR"
                 /\ state.error # Null
                 /\ done.alerted

(* C4: when addToCart's POST gets a non-success response, the call returns *)
(* without a reload, items keep their value and error is the service's     *)
(* reason if it gave one, the generic message otherwise.                   *)
C4_RejectedAddStops ==
  [][(ops' # ops /\ done'.op = "addToCart" /\ done'.pc = "request"
        /\ done'.status = "http")
       => /\ state'.items = state.items
          /\ state'.error \in {MsgDetail, MsgAdd}
          /\ BagCardinality(ops') < BagCardinality(ops)
          /\ \A o \in BagToSet(ops') : o \in Outstanding]_vars

NonPositive == {-1, 0}

Observable(eff) ==
  [state |-> eff.state, pc |-> eff.pc, req |-> eff.req, terminal |-> eff.terminal,
   alerted |-> eff.alerted, failed |-> eff.failed, noop |-> eff.noop]

(* C5: for every product p, present or absent, updateQuantity(p, q) with   *)
(* q <= 0 does what removeFromCart(p) does from the same state: the same   *)
(* state, the same DELETE of p's line and no PUT, and its response is      *)
(* awaited by removeFromCart's continuation.                               *)
C5_UpdateZeroIsRemove ==
  /\ \A p \in Products, q \in NonPositive :
       Observable(UpdateQuantityCall(state, p, q)) = Observable(RemoveFromCartCall(state, p))
  /\ \A o \in Outstanding :
       (o.op = "updateQuantity" /\ o.pc = "request" /\ o.quantity <= 0)
         => /\ o.run = "removeFromCart"
            /\ o.req = DeleteItem(LineId(o.productId))

C5_Witness ==
  \E o \in Outstanding :
    /\ o.op = "updateQuantity" /\ o.quantity <= 0 /\ o.productId = 2
    /\ o.resp.status = "ok"
    /\ Len(state.items) = 2

NoOpEffect(eff) ==
  /\ eff.state = state
  /\ eff.pc = "done" /\ eff.req = NoReq
  /\ eff.terminal = "none" /\ ~eff.alerted /\ ~eff.failed

(* C6: removeFromCart(p) and updateQuantity(p, q), called when the items   *)
(* hold no line of product p, issue no request, dispatch nothing (items,   *)
(* loading and error unchanged) and raise no error and no notification.    *)
C6_AbsentIsNoOp ==
  /\ [](\A p \in Products :
          ItemOfProduct(state.items, p) = 0
            => /\ NoOpEffect(RemoveFromCartCall(state, p))
               /\ \A q \in -1..MaxQty : NoOpEffect(UpdateQuantityCall(state, p, q)))
  /\ [][done'.noop => /\ UNCHANGED <<state, backend, ops, lastTerminal>>
                      /\ done'.terminal = "none"
                      /\ ~done'.alerted /\ ~done'.failed]_vars

C6_Witness ==
  /\ done.noop /\ done.op = "removeFromCart"
  /\ state.items # NoItems
  /\ state.error # Null

(* C7: when clearCart's DELETE succeeds the call returns there, with no    *)
(* reload, on a SET_CART that leaves no items, loading false and error     *)
(* null.                                                                   *)
C7_ClearSetsEmpty ==
  (done.op = "clearCart" /\ done.status = "ok")
    => /\ done.pc = "request"
       /\ done.terminal = "SET_CART"
       /\ state = [items |-> NoItems, loading |-> FALSE, error |-> Null]

C7_Witness ==
  /\ done.op = "clearCart" /\ done.status = "ok"
  /\ Outstanding # {}

(* C8: a loadCart called right after a successful clearCart, with no       *)
(* change of the cart since, that succeeds leaves no items.                *)
C8_ClearThenLoadEmpty ==
  (done.op = "loadCart" /\ done.afterClear /\ done.terminal = "SET_CART")
    => state.items = NoItems

C8_Witness ==
  done.op = "loadCart" /\ done.afterClear /\ done.terminal = "SET_CART"

(* C9: loading is true only while a call is suspended on a request.        *)
C9_LoadingOnlyInFlight == state.loading => Outstanding # {}

C9_Witness ==
  /\ state.loading
  /\ done.failed /\ done.alerted
  /\ \E o \in Outstanding : o.op = "loadCart"

(* C10: error is non-null only when the last terminal dispatch was the     *)
(* SET_ERROR of a failed call, and after a terminal SET_CART error is      *)
(* null.                                                                   *)
C10_ErrorOnlyAfterFailure ==
  /\ state.error # Null => lastTerminal = "SET_ERROR"
  /\ lastTerminal = "SET_CART" => state.error = Null
  /\ done.terminal = "SET_ERROR" => done.failed

C10_Witness ==
  /\ done.terminal = "SET_CART" /\ done.op = "removeFromCart"
  /\ state.error = Null
  /\ \E o \in Outstanding : o.resp.status = "network"

(* the step in which the response awaited by o arrives and o returns *)
Completes(o) == o \in Outstanding /\ o.resp.status = "ok" /\ ops' = ops (-) One(o)

(* the step in which the response awaited by o arrives and o goes on as n *)
Continues(o, n) == o \in Outstanding /\ n # o /\ ops' = (ops (-) One(o)) (+) One(n)

(* C11, as claimed: every overlapped mutating call that reaches its        *)
(* terminal SET_CART reaches it on the response of its reload, and the     *)
(* items are then the snapshot that response carried.                      *)
C11_LastReloadWins ==
  [][\A o \in Outstanding :
       (Completes(o) /\ o.op # "loadCart" /\ ~o.alone)
         => /\ o.pc = "load"
            /\ done'.terminal = "SET_CART"
            /\ state'.items = MapItems(o.resp.items)]_vars

(* C11, amended: whatever other calls are suspended and whichever was      *)
(* made first, a call whose requests succeed returns on its own SET_CART,  *)
(* and the items are then what that SET_CART carried: the snapshot of the  *)
(* reload response that arrived, or no items for clearCart; so the         *)
(* SET_CART dispatched last decides the items.                             *)
C11_LastToCompleteWins ==
  [][\A o \in Outstanding :
       /\ \A n \in BagToSet(ops') :
            (o.pc = "request" /\ o.resp.status = "ok" /\ Continues(o, n))
              => n.op = o.op /\ n.pc = "load" /\ n.req = GetCart
       /\ (o.pc = "request" /\ o.resp.status = "ok" /\ Completes(o))
            => o.run = "clearCart"
       /\ Completes(o)
            => /\ done'.op = o.op /\ done'.terminal = "SET_CART"
               /\ state'.items = IF o.pc = "load" THEN MapItems(o.resp.items) ELSE NoItems
               /\ state'.loading = FALSE]_vars

(* the call made first returns last and its older snapshot stays *)
C11_Witness ==
  /\ Quiet
  /\ done.op = "updateQuantity" /\ done.terminal = "SET_CART"
  /\ done.first /\ ~done.alone
  /\ state.items # NoItems /\ backend = NoItems

RECURSIVE SumQuantities(_)
SumQuantities(calls) ==
  IF calls = <<>> THEN 0 ELSE Head(calls).quantity + SumQuantities(Tail(calls))

RECURSIVE SumPrices(_)
SumPrices(calls) ==
  IF calls = <<>> THEN 0
  ELSE Head(calls).price * Head(calls).quantity + SumPrices(Tail(calls))

(* C12: after addToCart calls with quantities q1..qn for n distinct        *)
(* products, all successful and one at a time on a cart that was empty,    *)
(* once the last reload is done getCartItemCount is the sum of the qi and  *)
(* getCartTotal the sum of the price_i * qi.                               *)
C12_CountAndTotal ==
  (adds.pure /\ Quiet)
    => /\ getCartItemCount(state) = SumQuantities(adds.calls)
       /\ getCartTotal(state) = SumPrices(adds.calls)

C12_Witness ==
  /\ adds.pure /\ Quiet
  /\ Len(adds.calls) = 2
  /\ adds.calls[1].productId = 2 /\ adds.calls[1].quantity = 1
  /\ adds.calls[2].quantity = 2
  /\ getCartTotal(state) = 40

(* the quantity asked for, 1 when none is given *)
Asked == IF probe.quantity = JsUndefined THEN 1 ELSE probe.quantity.value

C14_SessionIdStable ==
  /\ [](cartId \in Ids
          => /\ storage.value = cartId
             /\ \A o \in Outstanding : o.cartId = cartId)
  /\ [][/\ (cartId = Unmounted /\ cartId' \in Ids)
            => IF Falsy(storage.value)
               THEN /\ storage'.value = cartId'
                    /\ storage'.writes = storage.writes + 1
               ELSE cartId' = storage.value /\ storage' = storage
         /\ cartId \in Ids => (cartId' = cartId /\ storage' = storage)]_vars

C14_Witness ==
  /\ cartId = "cart-b"
  /\ storage = [Storage("ok", "cart-b") EXCEPT !.writes = 1]
  /\ lastTerminal = "SET_CART"
  /\ \E o \in Outstanding : o.op = "addToCart" /\ o.pc = "load" /\ o.cartId = "cart-b"

(* C15: getCartId never fails: also on a storage whose reads or writes     *)
(* throw it returns an id, which is then not stored.                       *)
C15_NoErrorPath ==
  /\ cartId # Threw
  /\ (cartId # Unmounted /\ storage.mode # "ok")
       => (cartId \in Ids /\ storage.writes = 0)

(* C16: whatever integers addToCart and updateQuantity are called with,    *)
(* every item of the state has a quantity of at least 1, and no request    *)
(* asks the service for a line of a quantity below 1: such a quantity is   *)
(* only ever sent as the DELETE of the line.                               *)
C16_QuantityPositive ==
  /\ \A k \in 1..Len(state.items) : state.items[k].quantity >= 1
  /\ \A o \in Outstanding :
       o.req.method \in {"POST", "PUT"} => o.req.quantity >= 1

(* C17: a call whose request fails (its own request or its reload, by a    *)
(* non-success response or a network failure) leaves the items as they     *)
(* were: the step in which it returns does not change them, and the items  *)
(* change in no step but the return of a call on its SET_CART, so neither  *)
(* do the earlier steps of the failed call; until the first terminal       *)
(* dispatch they are empty.                                                *)
C17_FailureKeepsItems ==
  /\ [](lastTerminal = "none" => state.items = NoItems)
  /\ [][(done'.failed => state'.items = state.items)
         /\ (state'.items # state.items
               => (done'.terminal = "SET_CART" /\ ~done'.failed))]_vars

C17_Witness ==
  /\ done.op = "updateQuantity" /\ done.failed /\ done.status = "network"
  /\ done.alone
  /\ state.items # NoItems
  /\ ~InSync

(* C18: the items are always the whole mapping of one cart (no items at    *)
(* the start and after a clearCart), and every change of the items         *)
(* installs exactly the rows of the one load response that arrived in      *)
(* that step, or no items when a clearCart succeeded in it: never part of  *)
(* a response, nor a mix of the old items and a response, however the      *)
(* calls overlap.                                                          *)
C18_NoTornItems ==
  /\ [](state.items \in {MapItems(rows) : rows \in CartsOf(Products)})
  /\ [][(state'.items # state.items
           => (\E c \in Outstanding :
                 /\ Completes(c)
                 /\ state'.items = IF c.pc = "load" THEN MapItems(c.resp.items)
                                                    ELSE NoItems))
         /\ (\A o \in Outstanding :
               (Completes(o) /\ o.pc = "load")
                 => /\ Len(state'.items) = Len(o.resp.items)
                    /\ \A k \in 1..Len(o.resp.items) :
                         state'.items[k] = MapItem(o.resp.items[k]))]_vars

C18_Witness ==
  /\ done.terminal = "SET_CART" /\ ~done.alone
  /\ state.items # NoItems
  /\ \E o \in Outstanding :
       /\ o.pc = "load" /\ o.resp.status = "ok"
       /\ MapItems(o.resp.items) # state.items

AtMostOnce(op, sent) ==
  /\ sent.mutating <= 1 /\ sent.gets <= 1
  /\ op = "loadCart" => sent.mutating = 0

(* C19: whatever the responses, a call of addToCart, removeFromCart,       *)
(* updateQuantity or clearCart issues at most one POST, PUT or DELETE and  *)
(* at most one reload GET, and a call of loadCart issues exactly one GET   *)
(* and nothing else: a failed request is not issued again.                 *)
C19_NoRetry ==
  /\ \A o \in Outstanding :
       /\ AtMostOnce(o.op, o.sent)
       /\ o.op = "loadCart" => o.sent.gets = 1
  /\ done.op # "none"
       => /\ AtMostOnce(done.op, done.sent)
          /\ done.op = "loadCart" => done.sent.gets = 1
          /\ (done.failed /\ done.pc = "request") => done.sent.gets = 0

C19_Witness ==
  /\ done.op = "addToCart" /\ done.failed /\ done.pc = "load"
  /\ done.sent = [mutating |-> 1, gets |-> 1]
  /\ \E o \in Outstanding : o.op = "loadCart" /\ o.resp.status = "none"

(* C20: SET_CART, dispatched on any state, gives the state whose items are *)
(* the items given (no items when the payload has none), with loading      *)
(* false and error null.                                                   *)
C20_SetCart ==
  (probe.fn = "dispatch" /\ probe.action.type = "SET_CART")
    => /\ state.items = IF probe.action.payload.given
                         THEN probe.action.payload.items ELSE <<>>
       /\ state.loading = FALSE
       /\ state.error = Null
       /\ DOMAIN state = DOMAIN probe.prior

C20_Witness ==
  /\ probe.fn = "dispatch" /\ probe.action = SetCartNoItems
  /\ probe.prior.items # NoItems /\ probe.prior.loading /\ probe.prior.error = MsgDetail
  /\ state = InitialState

(* C21: SET_LOADING(b), dispatched on any state, sets loading to b and     *)
(* leaves items and error as they were.                                    *)
C21_SetLoading ==
  (probe.fn = "dispatch" /\ probe.action.type = "SET_LOADING")
    => /\ state.loading = probe.action.payload
       /\ state.items = probe.prior.items
       /\ state.error = probe.prior.error
       /\ DOMAIN state = DOMAIN probe.prior

C21_Witness ==
  /\ probe.fn = "dispatch" /\ probe.action = SetLoading(TRUE)
  /\ ~probe.prior.loading /\ probe.prior.error = MsgLoad
  /\ Len(probe.prior.items) = 2
  /\ state.loading

(* C22: SET_ERROR(message), dispatched on any state, sets error to the     *)
(* message and loading to false and leaves items as they were.             *)
C22_SetError ==
  (probe.fn = "dispatch" /\ probe.action.type = "SET_ERROR")
    => /\ state.error = probe.action.payload
       /\ state.loading = FALSE
       /\ state.items = probe.prior.items
       /\ DOMAIN state = DOMAIN probe.prior

C22_Witness ==
  /\ probe.fn = "dispatch" /\ probe.action = SetError(MsgDetail)
  /\ probe.prior.loading /\ probe.prior.error = MsgLoad
  /\ Len(probe.prior.items) = 2
  /\ state.error = MsgDetail /\ ~state.loading

(* C23: an action of any other type than SET_CART, SET_LOADING and         *)
(* SET_ERROR, dispatched on any state, returns that state unchanged.       *)
C23_UnknownIsNoOp ==
  (probe.fn = "dispatch"
     /\ probe.action.type \notin {"SET_CART", "SET_LOADING", "SET_ERROR"})
    => state = probe.prior

C23_Witness ==
  /\ probe.fn = "dispatch" /\ probe.action.type = "set_cart"
  /\ probe.prior.loading /\ probe.prior.error = MsgDetail
  /\ probe.prior.items # NoItems
  /\ state = probe.prior

(* C24: when the callers make finitely many calls and every request is     *)
(* answered, a state with no call suspended is reached, whatever calls     *)
(* failed, and in every state with no call suspended loading is false.     *)
C24_LoadingSettles == <>Quiet /\ [](Quiet => ~state.loading)

C24_Witness ==
  /\ Quiet /\ ~state.loading
  /\ budget = Budget(0)
  /\ done.op = "addToCart" /\ done.failed /\ ~done.alone
  /\ lastTerminal = "SET_ERROR"

(* the addToCart calls whose POST has not been answered to the caller yet *)
AddsOutstanding ==
  BagCardinality([o \in {x \in Outstanding : x.run = "addToCart"} |-> ops[o]])

(* C25: with the add button enabled only when canAddToCart(product) and    *)
(* not loading, at most one addToCart request made from the page is        *)
(* outstanding at a time, whatever the cart widget's calls and their       *)
(* reloads do in between.                                                  *)
C25_OneAddAtATime == AddsOutstanding <= 1

====
